---- MODULE Spec2Model ----
(***************************************************************************)
(* Model of the command-line proxy specification compiler of gost:         *)
(* buildConfigFromCmd and the functions it calls (normCmd,                 *)
(* buildNodeConfig, buildServiceConfig, parseAuthFromCmd, parseSelector).  *)
(*                                                                         *)
(* Go strings that the code splits, trims or indexes are sequences of      *)
(* tokens (a token is one separator character such as "," or ":" or one    *)
(* run of other characters such as "1.1.1.1").  Type names, metadata keys  *)
(* and generated entity names are TLA+ strings.  A metadata map           *)
(* (map[string]any) is a function from keys to tagged values; maps live in *)
(* the heap `mds` and are referred to by index, because the code shares    *)
(* one map between Handler, Listener and Service (or Connector and Dialer  *)
(* of every expanded node).                                                *)
(***************************************************************************)
EXTENDS Integers, Sequences, FiniteSets, TLC

VARIABLES
    nodes,       \* argument `nodes`: the node specs, in list order
    services,    \* argument `services`: the service specs, in list order
    pc,          \* "nodes": in the loop of line 68; "services": line 174; "done"
    i,           \* number of specs of the current loop already compiled
    cfg,         \* the local *config.Config being built
    mds,         \* heap of metadata maps (map[string]any), by index
    nodeConfig,  \* local `nodeConfig` of the last node iteration (the template)
    ret          \* the returned pair (cfg, err) once pc = "done"

vars == <<nodes, services, pc, i, cfg, mds, nodeConfig, ret>>

\* Bound on the number of command-line specs (node specs plus service specs).
MaxSpecs == 3

Nil == [nil |-> TRUE]
EmptyStr == <<>>

(***************************************************************************)
(* String helpers (package strings, strconv, time, encoding/base64).       *)
(***************************************************************************)

\* strings.IndexByte, 1-based; 0 when the token does not occur (Go: -1).
IndexByte(s, c) ==
    IF \E n \in 1..Len(s) : s[n] = c
    THEN CHOOSE n \in 1..Len(s) : s[n] = c /\ \A k \in 1..(n-1) : s[k] # c
    ELSE 0

RECURSIVE Split(_, _)
\* strings.Split(s, sep): always at least one element, empty pieces kept.
Split(s, sep) ==
    LET n == IndexByte(s, sep) IN
    IF n = 0 THEN <<s>>
    ELSE <<SubSeq(s, 1, n-1)>> \o Split(SubSeq(s, n+1, Len(s)), sep)

\* strings.SplitN(s, sep, 2): cut at the first separator only.
SplitN2(s, sep) ==
    LET n == IndexByte(s, sep) IN
    IF n = 0 THEN <<s>>
    ELSE <<SubSeq(s, 1, n-1), SubSeq(s, n+1, Len(s))>>

RECURSIVE TrimLeft(_, _)
TrimLeft(s, c) ==
    IF Len(s) > 0 /\ s[1] = c THEN TrimLeft(Tail(s), c) ELSE s

RECURSIVE TrimRight(_, _)
TrimRight(s, c) ==
    IF Len(s) > 0 /\ s[Len(s)] = c THEN TrimRight(SubSeq(s, 1, Len(s)-1), c) ELSE s

\* strings.Trim(s, cutset) for a one-character cutset.
Trim(s, c) == TrimRight(TrimLeft(s, c), c)

\* strconv.Atoi: the value of a numeral, 0 (and an ignored error) otherwise.
Atoi(s) ==
    IF Len(s) # 1 THEN 0
    ELSE CASE s[1] = "0" -> 0
           [] s[1] = "2" -> 2
           [] s[1] = "3" -> 3
           [] s[1] = "5" -> 5
           [] s[1] = "-1" -> 0 - 1
           [] OTHER -> 0

\* time.ParseDuration, in seconds: 0 (and an ignored error) without a unit.
ParseDuration(s) ==
    IF Len(s) # 1 THEN 0
    ELSE CASE s[1] = "10s" -> 10
           [] s[1] = "0s" -> 0
           [] OTHER -> 0

\* strconv.ParseBool.
ParseBool(s) ==
    Len(s) = 1 /\ s[1] \in {"1", "t", "T", "true", "TRUE", "True"}

\* base64.StdEncoding.DecodeString: [err, v].
DecodeString(sa) ==
    IF sa = <<"b3RoZXI6cHc=">> THEN [err |-> "nil", v |-> <<"other", ":", "pw">>]
    ELSE IF sa = <<"b3RoZXI=">> THEN [err |-> "nil", v |-> <<"other">>]
    ELSE [err |-> "base64.CorruptInputError", v |-> EmptyStr]

\* fmt.Sprintf("<kind>-%d", n).
Sprintf(kind, n) == kind \o "-" \o ToString(n)

(***************************************************************************)
(* Metadata maps and the typed getters of mdutil.  mdx.NewMetadata(m) is a *)
(* view of m: md.Set at line 409 writes the map the service keeps.         *)
(***************************************************************************)

StrV(s) == [t |-> "string", v |-> s]
ListV(l) == [t |-> "[]string", v |-> l]

Delete(m, k) == [x \in (DOMAIN m) \ {k} |-> m[x]]

RECURSIVE DeleteAll(_, _)
DeleteAll(m, ks) ==
    IF Len(ks) = 0 THEN m ELSE DeleteAll(Delete(m, Head(ks)), Tail(ks))

Set(m, k, v) == [x \in (DOMAIN m) \cup {k} |-> IF x = k THEN v ELSE m[x]]

GetString(m, k) ==
    IF k \in DOMAIN m /\ m[k].t = "string" THEN m[k].v ELSE EmptyStr

GetInt(m, k) ==
    IF k \in DOMAIN m /\ m[k].t = "string" THEN Atoi(m[k].v) ELSE 0

GetBool(m, k) ==
    IF k \in DOMAIN m /\ m[k].t = "string" THEN ParseBool(m[k].v) ELSE FALSE

\* mdutil.GetDuration: a duration string, else a number of seconds.
GetDuration(m, k) ==
    IF k \in DOMAIN m /\ m[k].t = "string"
    THEN LET d == ParseDuration(m[k].v) IN IF d = 0 THEN Atoi(m[k].v) ELSE d
    ELSE 0

\* A slip that keeps the last value of a repeated key.
QueryLastIndex(q, k) ==
    CHOOSE n \in 1..Len(q) : q[n][1] = k /\ \A j \in (n+1)..Len(q) : q[j][1] # k

\* v[0] of the values url.Query() groups under key k.
QueryFirstIndex(q, k) ==
    CHOOSE n \in 1..Len(q) : q[n][1] = k /\ \A j \in 1..(n-1) : q[j][1] # k

\* The query loop of lines 365-370 and 471-476: url.Query() groups the
\* values of a key in order of appearance and the loop keeps the first.
QueryToMap(q) ==
    [k \in {q[n][1] : n \in 1..Len(q)} |-> StrV(q[QueryFirstIndex(q, k)][2])]

(***************************************************************************)
(* A command-line spec as url.Parse sees it.  `text` says whether the      *)
(* trimmed string is empty ("blank"), is rejected by url.Parse             *)
(* ("malformed") or parses ("url"); `scheme` is the text before "://",     *)
(* empty when the string has no "://" or starts with ":".                  *)
(***************************************************************************)

\* normCmd: [err, url].
normCmd(s) ==
    IF s.text = "blank" THEN [err |-> "ErrInvalidCmd", url |-> Nil]
    ELSE IF s.text = "malformed" THEN [err |-> "url.Error", url |-> Nil]
    ELSE [err |-> "nil",
          url |-> [Scheme |-> IF s.scheme = EmptyStr THEN <<"auto">>
                              ELSE IF s.scheme = <<"https">> THEN <<"http", "+", "tls">>
                              ELSE s.scheme,
                   User   |-> s.user,
                   Host   |-> s.host,
                   Path   |-> s.path,
                   Query  |-> s.query]]

\* parseAuthFromCmd: [err, auth].
parseAuthFromCmd(sa) ==
    LET d  == DecodeString(sa)
        cs == d.v
        n  == IndexByte(cs, ":")
    IN  IF d.err # "nil" THEN [err |-> d.err, auth |-> Nil]
        ELSE IF n = 0 THEN [err |-> "nil", auth |-> [Username |-> cs, Password |-> EmptyStr]]
        ELSE [err |-> "nil",
              auth |-> [Username |-> SubSeq(cs, 1, n-1),
                        Password |-> SubSeq(cs, n+1, Len(cs))]]

SelectorKeys == <<"strategy", "maxFails", "max_fails", "failTimeout", "fail_timeout">>

\* A slip that forgets the underscore aliases when deleting.
SelectorDeleteNoAlias(m) == DeleteAll(m, <<"strategy", "maxFails", "failTimeout">>)

\* The five deletes of lines 604-608.
SelectorDelete(m) == DeleteAll(m, SelectorKeys)

\* parseSelector: [sel, m], m the map as the call leaves it.
parseSelector(m) ==
    LET strategy0    == GetString(m, "strategy")
        mf           == GetInt(m, "maxFails")
        maxFails0    == IF mf = 0 THEN GetInt(m, "max_fails") ELSE mf
        ft           == GetDuration(m, "failTimeout")
        failTimeout0 == IF ft = 0 THEN GetDuration(m, "fail_timeout") ELSE ft
    IN  IF strategy0 = EmptyStr /\ maxFails0 <= 0 /\ failTimeout0 <= 0
        THEN [sel |-> Nil, m |-> m]
        ELSE [sel |-> [Strategy    |-> IF strategy0 = EmptyStr THEN <<"round">> ELSE strategy0,
                       MaxFails    |-> IF maxFails0 <= 0 THEN 1 ELSE maxFails0,
                       FailTimeout |-> IF failTimeout0 <= 0 THEN 30 ELSE failTimeout0],
              m   |-> SelectorDelete(m)]

\* The component registries of the runtime (registry.*Registry().Get).
RegisteredHandlers   == {"auto", "http", "socks5", "relay", "tcp", "udp", "rtcp",
                         "rudp", "ssu", "sshd", "forward", "dns", "tun", "tap"}
RegisteredListeners  == {"tcp", "udp", "tls", "ws", "rtcp", "rudp", "ssh", "sshd",
                         "dns", "tun", "tap"}
RegisteredConnectors == {"http", "socks5", "relay", "ssu", "sshd", "forward"}
RegisteredDialers    == {"tcp", "udp", "tls", "ws", "ssh", "sshd"}

\* One "+"-separated piece of the scheme as a type name.
TypeName(seg) == IF Len(seg) = 1 THEN seg[1] ELSE ""

\* Lines 308-317 and 438-447: [first, second], both "" unless 1 or 2 pieces.
SplitScheme(scheme) ==
    LET schemes == Split(scheme, "+") IN
    IF Len(schemes) = 1
    THEN [first |-> TypeName(schemes[1]), second |-> TypeName(schemes[1])]
    ELSE IF Len(schemes) = 2
    THEN [first |-> TypeName(schemes[1]), second |-> TypeName(schemes[2])]
    ELSE [first |-> "", second |-> ""]

\* Lines 358-363 and 464-469: the Auth of the URL's userinfo.
UserAuth(url) ==
    IF url.User = Nil THEN Nil
    ELSE [Username |-> url.User.Username, Password |-> url.User.Password]

\* url.Hostname(): the host without its port.
Hostname(host) ==
    LET n == IndexByte(host, ":") IN IF n = 0 THEN host ELSE SubSeq(host, 1, n-1)

TLSFileKeys == <<"certFile", "cert", "keyFile", "key", "caFile", "ca">>

FirstNonEmpty(a, b) == IF a = EmptyStr THEN b ELSE a

\* buildNodeConfig: [err, node, m]; id is the heap index of the new map m.
buildNodeConfig(url, id) ==
    LET sch       == SplitScheme(url.Scheme)
        connector == IF sch.first \in RegisteredConnectors THEN sch.first ELSE "http"
        dialer    == IF sch.second \in RegisteredDialers THEN sch.second
                     ELSE IF connector = "ssu" THEN "udp" ELSE "tcp"
        uauth     == UserAuth(url)
        m0        == QueryToMap(url.Query)
        sauth     == GetString(m0, "auth")
        fromMd    == sauth # EmptyStr /\ uauth = Nil
        au        == parseAuthFromCmd(sauth)
        auth      == IF fromMd THEN au.auth ELSE uauth
        m1        == Delete(m0, "auth")
        sn        == GetString(m1, "serverName")
        tls0      == [CertFile   |-> FirstNonEmpty(GetString(m1, "certFile"), GetString(m1, "cert")),
                      KeyFile    |-> FirstNonEmpty(GetString(m1, "keyFile"), GetString(m1, "key")),
                      CAFile     |-> FirstNonEmpty(GetString(m1, "caFile"), GetString(m1, "ca")),
                      Secure     |-> GetBool(m1, "secure"),
                      ServerName |-> IF sn = EmptyStr THEN Hostname(url.Host) ELSE sn]
        m2        == DeleteAll(m1, TLSFileKeys \o <<"secure", "serverName">>)
        tls       == IF ~tls0.Secure /\ tls0.CertFile = EmptyStr /\ tls0.CAFile = EmptyStr
                     THEN Nil ELSE tls0
        ssh       == dialer \in {"ssh", "sshd"}
    IN  IF fromMd /\ au.err # "nil" THEN [err |-> au.err, node |-> Nil, m |-> m0]
        ELSE [err  |-> "nil",
              node |-> [Name      |-> "",
                        Addr      |-> url.Host,
                        Connector |-> [Type |-> connector,
                                       Auth |-> IF ssh THEN Nil ELSE auth,
                                       Metadata |-> id],
                        Dialer    |-> [Type |-> dialer,
                                       Auth |-> IF ssh THEN auth ELSE Nil,
                                       TLS  |-> tls,
                                       Metadata |-> id]],
              m    |-> m2]

DirectHandlers == {"tcp", "udp", "rtcp", "rudp", "tun", "tap", "dns"}

\* A slip that drops the `relay` exception of line 345.
ForwardHandlerNoRelay(handler, listener) ==
    IF listener \in DirectHandlers THEN listener ELSE "forward"

\* Lines 345-354: the handler type of a forward-mode service.
ForwardHandler(handler, listener) ==
    IF handler # "relay"
    THEN IF listener \in DirectHandlers THEN listener ELSE "forward"
    ELSE handler

RECURSIVE ForwarderNodes(_, _)
\* Lines 338-344: one target per piece of the path, named by its index.
ForwarderNodes(addrs, k) ==
    IF Len(addrs) = 0 THEN <<>>
    ELSE <<[Name |-> Sprintf("target", k), Addr |-> Head(addrs)]>>
         \o ForwarderNodes(Tail(addrs), k + 1)

\* buildServiceConfig: [err, svc, m]; id is the heap index of the new map m.
buildServiceConfig(url, id) ==
    LET sch       == SplitScheme(url.Scheme)
        handler0  == IF sch.first \in RegisteredHandlers THEN sch.first ELSE "auto"
        listener  == IF sch.second \in RegisteredListeners THEN sch.second
                     ELSE IF handler0 = "ssu" THEN "udp" ELSE "tcp"
        remotes   == Trim(url.Path, "/")
        forward   == remotes # EmptyStr
        handler   == IF forward THEN ForwardHandler(handler0, listener) ELSE handler0
        uauth     == UserAuth(url)
        m0        == QueryToMap(url.Query)
        sa        == GetString(m0, "auth")
        au        == parseAuthFromCmd(sa)
        auth      == IF sa # EmptyStr THEN au.auth ELSE uauth
        m1        == Delete(m0, "auth")
        tls0      == [CertFile   |-> FirstNonEmpty(GetString(m1, "certFile"), GetString(m1, "cert")),
                      KeyFile    |-> FirstNonEmpty(GetString(m1, "keyFile"), GetString(m1, "key")),
                      CAFile     |-> FirstNonEmpty(GetString(m1, "caFile"), GetString(m1, "ca")),
                      Secure     |-> FALSE,
                      ServerName |-> EmptyStr]
        m2        == DeleteAll(m1, TLSFileKeys)
        tls       == IF tls0.CertFile = EmptyStr THEN Nil ELSE tls0
        dns       == GetString(m2, "dns")
        m3        == IF dns # EmptyStr THEN Set(m2, "dns", ListV(Split(dns, ","))) ELSE m2
        ps        == parseSelector(m3)
        m4        == IF forward THEN ps.m ELSE m3
        ssh       == listener \in {"ssh", "sshd"}
    IN  IF sa # EmptyStr /\ au.err # "nil" THEN [err |-> au.err, svc |-> Nil, m |-> m0]
        ELSE [err |-> "nil",
              svc |-> [Name      |-> "",
                       Addr      |-> url.Host,
                       Admission |-> "", Bypass |-> "", Resolver |-> "",
                       Hosts     |-> "", Limiter |-> "",
                       Forwarder |-> IF forward
                                     THEN [Nodes    |-> ForwarderNodes(Split(remotes, ","), 0),
                                           Selector |-> ps.sel]
                                     ELSE Nil,
                       Handler   |-> [Type |-> handler,
                                      Auth |-> IF ssh THEN Nil ELSE auth,
                                      Chain |-> "", Retries |-> 0,
                                      Metadata |-> id],
                       Listener  |-> [Type |-> listener,
                                      Auth |-> IF ssh THEN auth ELSE Nil,
                                      Chain |-> "",
                                      TLS  |-> tls,
                                      Metadata |-> id],
                       Metadata  |-> id],
              m   |-> m4]

(***************************************************************************)
(* The named sub-resources of buildConfigFromCmd.                          *)
(***************************************************************************)

NonEmpty(pieces) == SelectSeq(pieces, LAMBDA p : p # EmptyStr)

\* A slip that names a sub-resource after the loop index of its spec.
EntityNameByIndex(kind, coll, idx) == Sprintf(kind, idx)

\* fmt.Sprintf("bypass-%d", len(cfg.Bypasses)) and its siblings.
EntityName(kind, coll, idx) == Sprintf(kind, Len(coll))

\* A slip that creates the entity whatever the key holds.
TriggeredAlways(v) == TRUE

\* The guards `v != ""` of lines 101, 119, 138, 200, 218, 236, 256.
Triggered(v) == v # EmptyStr

\* Lines 105-114 and 204-213, 222-231: whitelist flag and matchers.
MatcherConfig(name, v) ==
    LET white == Len(v) > 0 /\ v[1] = "~"
        rest  == IF white THEN Tail(v) ELSE v
    IN  [Name |-> name, Whitelist |-> white, Matchers |-> NonEmpty(Split(rest, ","))]

RECURSIVE Nameservers(_, _)
Nameservers(addrs, prefer) ==
    IF Len(addrs) = 0 THEN <<>>
    ELSE <<[Addr |-> Head(addrs), Prefer |-> prefer]>> \o Nameservers(Tail(addrs), prefer)

\* Lines 123-133 and 240-251.
ResolverConfig(name, v, prefer) ==
    [Name |-> name, Nameservers |-> Nameservers(NonEmpty(Split(v, ",")), prefer)]

RECURSIVE Mappings(_)
Mappings(pieces) ==
    IF Len(pieces) = 0 THEN <<>>
    ELSE LET ss == SplitN2(Head(pieces), ":") IN
         (IF Len(ss) # 2 THEN <<>> ELSE <<[Hostname |-> ss[1], IP |-> ss[2]]>>)
         \o Mappings(Tail(pieces))

\* Lines 142-154 and 260-272.
HostsConfig(name, v) == [Name |-> name, Mappings |-> Mappings(Split(v, ","))]

\* Lines 283-294; "$" and "$$" are xlimiter.GlobalLimitKey and ConnLimitKey.
LimiterConfig(name, in, out, cin, cout) ==
    [Name |-> name,
     Limits |-> (IF in # EmptyStr THEN <<(<<"$", " ">> \o in \o <<" ">> \o out)>> ELSE <<>>)
                \o (IF cin # EmptyStr THEN <<(<<"$$", " ">> \o cin \o <<" ">> \o cout)>> ELSE <<>>)]

RECURSIVE ExpandFrom(_, _, _)
ExpandFrom(tmpl, hosts, acc) ==
    IF Len(hosts) = 0 THEN acc
    ELSE IF Head(hosts) = EmptyStr THEN ExpandFrom(tmpl, Tail(hosts), acc)
    ELSE ExpandFrom(tmpl, Tail(hosts),
                    Append(acc, [tmpl EXCEPT !.Name = Sprintf("node", Len(acc)),
                                             !.Addr = Head(hosts)]))

RECURSIVE ExpandByPosition(_, _, _)
ExpandByPosition(tmpl, hosts, k) ==
    IF Len(hosts) = 0 THEN <<>>
    ELSE (IF Head(hosts) = EmptyStr THEN <<>>
          ELSE <<[tmpl EXCEPT !.Name = Sprintf("node", k), !.Addr = Head(hosts)]>>)
         \o ExpandByPosition(tmpl, Tail(hosts), k + 1)

\* A slip that numbers the nodes by their position in the split address.
ExpandHostsByPosition(tmpl) == ExpandByPosition(tmpl, Split(tmpl.Addr, ","), 0)

\* Lines 80-90: the nodes of one hop.
ExpandHosts(tmpl) == ExpandFrom(tmpl, Split(tmpl.Addr, ","), <<>>)

\* Line 97: Selector: parseSelector(mc).  st is [cfg, m, e]: the
\* configuration, the metadata map and the hop (or service) being filled.
HopSelector(st) ==
    LET ps == parseSelector(st.m) IN [st EXCEPT !.m = ps.m, !.e.Selector = ps.sel]

\* Lines 101-118.
HopBypass(st, idx) ==
    LET v    == GetString(st.m, "bypass")
        name == EntityName("bypass", st.cfg.Bypasses, idx)
    IN  IF Triggered(v)
        THEN [st EXCEPT !.cfg.Bypasses = Append(@, MatcherConfig(name, v)),
                        !.e.Bypass = name,
                        !.m = Delete(@, "bypass")]
        ELSE st

\* Lines 119-137.
HopResolver(st, idx) ==
    LET v    == GetString(st.m, "resolver")
        name == EntityName("resolver", st.cfg.Resolvers, idx)
    IN  IF Triggered(v)
        THEN [st EXCEPT !.cfg.Resolvers = Append(@, ResolverConfig(name, v, EmptyStr)),
                        !.e.Resolver = name,
                        !.m = Delete(@, "resolver")]
        ELSE st

\* Lines 138-158.
HopHosts(st, idx) ==
    LET v    == GetString(st.m, "hosts")
        name == EntityName("hosts", st.cfg.Hosts, idx)
    IN  IF Triggered(v)
        THEN [st EXCEPT !.cfg.Hosts = Append(@, HostsConfig(name, v)),
                        !.e.Hosts = name,
                        !.m = Delete(@, "hosts")]
        ELSE st

\* Lines 160-163.
HopInterface(st) ==
    LET v == GetString(st.m, "interface") IN
    IF v # EmptyStr
    THEN [st EXCEPT !.e.Interface = v, !.m = Delete(@, "interface")]
    ELSE st

\* Lines 164-169.
HopSockOpts(st) ==
    LET v == GetInt(st.m, "so_mark") IN
    IF v > 0
    THEN [st EXCEPT !.e.SockOpts = [Mark |-> v], !.m = Delete(@, "so_mark")]
    ELSE st

\* Line 171.
HopAppend(st) == [cfg |-> [st.cfg EXCEPT !.Chains[1].Hops = Append(@, st.e)], m |-> st.m]

\* Lines 92-171: the hop of node spec number idx (from 0), whose template
\* is tmpl and whose metadata map is m; [cfg, m].
HopStep(c, tmpl, m, idx) ==
    HopAppend(HopSockOpts(HopInterface(HopHosts(HopResolver(HopBypass(HopSelector(
        [cfg |-> c,
         m   |-> m,
         e   |-> [Name      |-> Sprintf("hop", idx),
                  Selector  |-> Nil,
                  Nodes     |-> ExpandHosts(tmpl),
                  Bypass    |-> "", Resolver |-> "", Hosts |-> "",
                  Interface |-> EmptyStr,
                  SockOpts  |-> Nil]]), idx), idx), idx))))

\* A slip that forgets the reverse-tunnel listeners.
ChainOnListenerNever(listener) == FALSE

\* Line 186: the listener types that carry the chain themselves.
ChainOnListener(listener) == listener \in {"rtcp", "rudp"}

\* Lines 184-192: the name, the chain reference, the append.
SvcChain(st, idx) ==
    LET named == [st EXCEPT !.e.Name = Sprintf("service", idx)] IN
    IF Len(st.cfg.Chains) = 0 THEN named
    ELSE IF ChainOnListener(st.e.Listener.Type)
    THEN [named EXCEPT !.e.Listener.Chain = st.cfg.Chains[1].Name]
    ELSE [named EXCEPT !.e.Handler.Chain = st.cfg.Chains[1].Name]

\* Lines 196-199.
SvcRetries(st) ==
    LET v == GetInt(st.m, "retries") IN
    IF v > 0
    THEN [st EXCEPT !.e.Handler.Retries = v, !.m = Delete(@, "retries")]
    ELSE st

\* Lines 200-217.
SvcAdmission(st, idx) ==
    LET v    == GetString(st.m, "admission")
        name == EntityName("admission", st.cfg.Admissions, idx)
    IN  IF Triggered(v)
        THEN [st EXCEPT !.cfg.Admissions = Append(@, MatcherConfig(name, v)),
                        !.e.Admission = name,
                        !.m = Delete(@, "admission")]
        ELSE st

\* Lines 218-235.
SvcBypass(st, idx) ==
    LET v    == GetString(st.m, "bypass")
        name == EntityName("bypass", st.cfg.Bypasses, idx)
    IN  IF Triggered(v)
        THEN [st EXCEPT !.cfg.Bypasses = Append(@, MatcherConfig(name, v)),
                        !.e.Bypass = name,
                        !.m = Delete(@, "bypass")]
        ELSE st

\* Lines 236-255: `prefer` is read for every nameserver and never deleted.
SvcResolver(st, idx) ==
    LET v    == GetString(st.m, "resolver")
        name == EntityName("resolver", st.cfg.Resolvers, idx)
    IN  IF Triggered(v)
        THEN [st EXCEPT !.cfg.Resolvers =
                            Append(@, ResolverConfig(name, v, GetString(st.m, "prefer"))),
                        !.e.Resolver = name,
                        !.m = Delete(@, "resolver")]
        ELSE st

\* Lines 256-276.
SvcHosts(st, idx) ==
    LET v    == GetString(st.m, "hosts")
        name == EntityName("hosts", st.cfg.Hosts, idx)
    IN  IF Triggered(v)
        THEN [st EXCEPT !.cfg.Hosts = Append(@, HostsConfig(name, v)),
                        !.e.Hosts = name,
                        !.m = Delete(@, "hosts")]
        ELSE st

LimiterKeys == <<"limiter.rate.in", "limiter.rate.out",
                 "limiter.rate.conn.in", "limiter.rate.conn.out">>

\* Lines 278-301.
SvcLimiter(st, idx) ==
    LET in   == GetString(st.m, "limiter.rate.in")
        cin  == GetString(st.m, "limiter.rate.conn.in")
        name == EntityName("limiter", st.cfg.Limiters, idx)
    IN  IF in # EmptyStr \/ cin # EmptyStr
        THEN [st EXCEPT !.cfg.Limiters =
                            Append(@, LimiterConfig(name, in,
                                                    GetString(st.m, "limiter.rate.out"), cin,
                                                    GetString(st.m, "limiter.rate.conn.out"))),
                        !.e.Limiter = name,
                        !.m = DeleteAll(@, LimiterKeys)]
        ELSE st

\* cfg.Services holds the pointer appended at line 192: the service as the
\* iteration leaves it.
SvcAppend(st) == [cfg |-> [st.cfg EXCEPT !.Services = Append(@, st.e)], m |-> st.m]

\* Lines 184-301: service spec number idx (from 0) compiled to svc with
\* metadata map m; [cfg, m].
ServiceStep(c, svc, m, idx) ==
    SvcAppend(SvcLimiter(SvcHosts(SvcResolver(SvcBypass(SvcAdmission(SvcRetries(SvcChain(
        [cfg |-> c, m |-> m, e |-> svc], idx)), idx), idx), idx), idx), idx))

(***************************************************************************)
(* The specs the command line may carry.                                   *)
(***************************************************************************)

Url(scheme, user, host, path, query) ==
    [text |-> "url", scheme |-> scheme, user |-> user, host |-> host,
     path |-> path, query |-> query]

NoUrl(text) ==
    [text |-> text, scheme |-> EmptyStr, user |-> Nil, host |-> EmptyStr,
     path |-> EmptyStr, query |-> <<>>]

UserPass == [Username |-> <<"user">>, Password |-> <<"pass">>]
UserOnly == [Username |-> <<"u">>, Password |-> EmptyStr]

NodeSpecs ==
    { NoUrl("blank"),
      NoUrl("malformed"),
      \* http://user:pass@a,b?auth=b3RoZXI6cHc=&bypass=~x,,y&strategy=rand&foo=1&foo=2
      Url(<<"http">>, UserPass, <<"a", ",", "b">>, EmptyStr,
          << <<"auth", <<"b3RoZXI6cHc=">> >>, <<"bypass", <<"~", "x", ",", ",", "y">> >>,
             <<"strategy", <<"rand">> >>, <<"foo", <<"1">> >>, <<"foo", <<"2">> >> >>),
      \* socks5+tls://a,,b,?resolver=r1,r2&hosts=h:1,bad&interface=eth0&so_mark=5
      \*    &secure=true&maxFails=0&prefer=ipv6&dns=d1,d2
      Url(<<"socks5", "+", "tls">>, Nil, <<"a", ",", ",", "b", ",">>, EmptyStr,
          << <<"resolver", <<"r1", ",", "r2">> >>, <<"hosts", <<"h", ":", "1", ",", "bad">> >>,
             <<"interface", <<"eth0">> >>, <<"so_mark", <<"5">> >>,
             <<"secure", <<"true">> >>, <<"maxFails", <<"0">> >>,
             <<"prefer", <<"ipv6">> >>, <<"dns", <<"d1", ",", "d2">> >> >>),
      \* ssh://h:22?auth=b3RoZXI=&max_fails=2&fail_timeout=10s&cert=c&key=k&retries=3
      Url(<<"ssh">>, Nil, <<"h", ":", "22">>, EmptyStr,
          << <<"auth", <<"b3RoZXI=">> >>, <<"max_fails", <<"2">> >>,
             <<"fail_timeout", <<"10s">> >>, <<"cert", <<"c">> >>, <<"key", <<"k">> >>,
             <<"retries", <<"3">> >> >>),
      \* relay://h?auth=!!!
      Url(<<"relay">>, Nil, <<"h">>, EmptyStr, << <<"auth", <<"!!!">> >> >>),
      \* h:8080?hosts=&so_mark=0&bypass=&failTimeout=5
      Url(EmptyStr, Nil, <<"h", ":", "8080">>, EmptyStr,
          << <<"hosts", EmptyStr>>, <<"so_mark", <<"0">> >>, <<"bypass", EmptyStr>>,
             <<"failTimeout", <<"5">> >> >>),
      \* https://u@h?auth=!!!&serverName=sn&certFile=cf&cert=c2&bypass=z
      Url(<<"https">>, UserOnly, <<"h">>, EmptyStr,
          << <<"auth", <<"!!!">> >>, <<"serverName", <<"sn">> >>,
             <<"certFile", <<"cf">> >>, <<"cert", <<"c2">> >>, <<"bypass", <<"z">> >> >>) }

ServiceSpecs ==
    { NoUrl("blank"),
      NoUrl("malformed"),
      \* tcp://user:pass@:8080/t1,t2?auth=b3RoZXI6cHc=&bypass=~x,y&strategy=rand&foo=1&foo=2
      Url(<<"tcp">>, UserPass, <<":", "8080">>, <<"/", "t1", ",", "t2">>,
          << <<"auth", <<"b3RoZXI6cHc=">> >>, <<"bypass", <<"~", "x", ",", "y">> >>,
             <<"strategy", <<"rand">> >>, <<"foo", <<"1">> >>, <<"foo", <<"2">> >> >>),
      \* rtcp://:0/t1?resolver=r1,r2&prefer=ipv6&hosts=h:1,bad&maxFails=0&dns=d1,d2
      Url(<<"rtcp">>, Nil, <<":", "0">>, <<"/", "t1">>,
          << <<"resolver", <<"r1", ",", "r2">> >>, <<"prefer", <<"ipv6">> >>,
             <<"hosts", <<"h", ":", "1", ",", "bad">> >>, <<"maxFails", <<"0">> >>,
             <<"dns", <<"d1", ",", "d2">> >> >>),
      \* relay+tls://:443//t1,,t2/?admission=~a&limiter.rate.in=1mb&limiter.rate.out=2mb
      \*    &retries=3&certFile=cf&keyFile=kf
      Url(<<"relay", "+", "tls">>, Nil, <<":", "443">>, <<"/", "/", "t1", ",", ",", "t2", "/">>,
          << <<"admission", <<"~", "a">> >>, <<"limiter.rate.in", <<"1mb">> >>,
             <<"limiter.rate.out", <<"2mb">> >>, <<"retries", <<"3">> >>,
             <<"certFile", <<"cf">> >>, <<"keyFile", <<"kf">> >> >>),
      \* socks5+ws://u@:1080/t1?limiter.rate.conn.in=5&interface=eth0&so_mark=5&max_fails=2
      Url(<<"socks5", "+", "ws">>, UserOnly, <<":", "1080">>, <<"/", "t1">>,
          << <<"limiter.rate.conn.in", <<"5">> >>, <<"interface", <<"eth0">> >>,
             <<"so_mark", <<"5">> >>, <<"max_fails", <<"2">> >> >>),
      \* http://:8080?auth=!!!
      Url(<<"http">>, Nil, <<":", "8080">>, EmptyStr, << <<"auth", <<"!!!">> >> >>),
      \* :8080?strategy=rand&retries=0&admission=&bypass=&limiter.rate.out=9&prefer=ipv4
      Url(EmptyStr, Nil, <<":", "8080">>, EmptyStr,
          << <<"strategy", <<"rand">> >>, <<"retries", <<"0">> >>,
             <<"admission", EmptyStr>>, <<"bypass", EmptyStr>>,
             <<"limiter.rate.out", <<"9">> >>, <<"prefer", <<"ipv4">> >> >>),
      \* sshd://user:pass@:22/?auth=b3RoZXI=&secure=true
      Url(<<"sshd">>, UserPass, <<":", "22">>, <<"/">>,
          << <<"auth", <<"b3RoZXI=">> >>, <<"secure", <<"true">> >> >>) }

(***************************************************************************)
(* buildConfigFromCmd as a state machine: one step per loop iteration.     *)
(***************************************************************************)

\* Lines 35-66 (the environment settings of lines 37-58 are not modelled).
Init ==
    /\ \E n \in 0..MaxSpecs : \E k \in 0..(MaxSpecs - n) :
          /\ nodes \in [1..n -> NodeSpecs]
          /\ services \in [1..k -> ServiceSpecs]
    /\ pc = IF Len(nodes) > 0 THEN "nodes" ELSE "services"
    /\ i = 0
    /\ cfg = [Chains     |-> IF Len(nodes) > 0
                             THEN <<[Name |-> "chain-0", Hops |-> <<>>]>> ELSE <<>>,
              Services   |-> <<>>, Bypasses |-> <<>>, Resolvers |-> <<>>,
              Hosts      |-> <<>>, Limiters |-> <<>>, Admissions |-> <<>>]
    /\ mds = <<>>
    /\ nodeConfig = Nil
    /\ ret = Nil

\* The result of compiling one node spec: normCmd, then buildNodeConfig.
NodeResult(s, id) ==
    LET u == normCmd(s) IN
    IF u.err # "nil" THEN [err |-> u.err, node |-> Nil, m |-> <<>>]
    ELSE buildNodeConfig(u.url, id)

\* The result of compiling one service spec: normCmd, then buildServiceConfig.
ServiceResult(s, id) ==
    LET u == normCmd(s) IN
    IF u.err # "nil" THEN [err |-> u.err, svc |-> Nil, m |-> <<>>]
    ELSE buildServiceConfig(u.url, id)

\* A slip that hands back the configuration built so far with the error.
ReturnPartial(c, err) == [cfg |-> c, err |-> err]

\* `return nil, err` of lines 71, 76, 177, 182.
ReturnError(c, err) == [cfg |-> Nil, err |-> err]

\* One iteration of the loop of line 68 that reaches line 171.
CompileNode ==
    /\ pc = "nodes"
    /\ i < Len(nodes)
    /\ LET id == Len(mds) + 1
           r  == NodeResult(nodes[i + 1], id)
       IN  /\ r.err = "nil"
           /\ LET tmpl == [r.node EXCEPT !.Name = "node-0"]
                  h    == HopStep(cfg, tmpl, r.m, i)
              IN  /\ nodeConfig' = tmpl
                  /\ cfg' = h.cfg
                  /\ mds' = Append(mds, h.m)
    /\ i' = IF i + 1 = Len(nodes) THEN 0 ELSE i + 1
    /\ pc' = IF i + 1 = Len(nodes) THEN "services" ELSE "nodes"
    /\ UNCHANGED <<nodes, services, ret>>

\* An iteration of the loop of line 68 that returns at line 71 or 76.
FailNode ==
    /\ pc = "nodes"
    /\ i < Len(nodes)
    /\ LET r == NodeResult(nodes[i + 1], Len(mds) + 1)
       IN  /\ r.err # "nil"
           /\ ret' = ReturnError(cfg, r.err)
    /\ pc' = "done"
    /\ UNCHANGED <<nodes, services, i, cfg, mds, nodeConfig>>

\* One iteration of the loop of line 174 that reaches line 301.
CompileService ==
    /\ pc = "services"
    /\ i < Len(services)
    /\ LET id == Len(mds) + 1
           r  == ServiceResult(services[i + 1], id)
       IN  /\ r.err = "nil"
           /\ LET st == ServiceStep(cfg, r.svc, r.m, i)
              IN  /\ cfg' = st.cfg
                  /\ mds' = Append(mds, st.m)
    /\ i' = i + 1
    /\ UNCHANGED <<nodes, services, pc, nodeConfig, ret>>

\* An iteration of the loop of line 174 that returns at line 177 or 182.
FailService ==
    /\ pc = "services"
    /\ i < Len(services)
    /\ LET r == ServiceResult(services[i + 1], Len(mds) + 1)
       IN  /\ r.err # "nil"
           /\ ret' = ReturnError(cfg, r.err)
    /\ pc' = "done"
    /\ UNCHANGED <<nodes, services, i, cfg, mds, nodeConfig>>

\* `return cfg, nil` of line 304.
Return ==
    /\ pc = "services"
    /\ i = Len(services)
    /\ ret' = [cfg |-> cfg, err |-> "nil"]
    /\ pc' = "done"
    /\ UNCHANGED <<nodes, services, i, cfg, mds, nodeConfig>>

Next == CompileNode \/ FailNode \/ CompileService \/ FailService \/ Return

Spec == Init /\ [][Next]_vars

(***************************************************************************)
(* Properties.                                                             *)
(***************************************************************************)

\* buildConfigFromCmd has returned a configuration.
Returned == pc = "done" /\ ret.err = "nil"

Hops(c) == IF Len(c.Chains) > 0 THEN c.Chains[1].Hops ELSE <<>>

\* The query of a spec as the compilers first see it.
RawMap(s) == QueryToMap(s.query)

Resolves(ref, coll) ==
    ref = "" \/ Cardinality({k \in 1..Len(coll) : coll[k].Name = ref}) = 1

RefCount(c, field) ==
    Cardinality({k \in 1..Len(Hops(c)) : field \in DOMAIN Hops(c)[k] /\ Hops(c)[k][field] # ""})
    + Cardinality({k \in 1..Len(c.Services) : c.Services[k][field] # ""})

\* C1: in a returned configuration every non-empty by-name reference (a
\* hop's Bypass/Resolver/Hosts, a service's Admission/Bypass/Resolver/
\* Hosts/Limiter, a handler's or listener's Chain) is the Name of exactly
\* one entity of the matching collection; a spec whose triggering key is
\* absent or empty leaves the reference empty, and every entity of a
\* collection was created for one reference.
RefIntegrity ==
    Returned =>
        LET c == ret.cfg IN
        /\ \A k \in 1..Len(Hops(c)) :
              LET h == Hops(c)[k]
                  q == RawMap(nodes[k])
              IN  /\ Resolves(h.Bypass, c.Bypasses)
                  /\ Resolves(h.Resolver, c.Resolvers)
                  /\ Resolves(h.Hosts, c.Hosts)
                  /\ GetString(q, "bypass") = EmptyStr => h.Bypass = ""
                  /\ GetString(q, "resolver") = EmptyStr => h.Resolver = ""
                  /\ GetString(q, "hosts") = EmptyStr => h.Hosts = ""
        /\ \A k \in 1..Len(c.Services) :
              LET v == c.Services[k]
                  q == RawMap(services[k])
              IN  /\ Resolves(v.Admission, c.Admissions)
                  /\ Resolves(v.Bypass, c.Bypasses)
                  /\ Resolves(v.Resolver, c.Resolvers)
                  /\ Resolves(v.Hosts, c.Hosts)
                  /\ Resolves(v.Limiter, c.Limiters)
                  /\ Resolves(v.Handler.Chain, c.Chains)
                  /\ Resolves(v.Listener.Chain, c.Chains)
                  /\ GetString(q, "admission") = EmptyStr => v.Admission = ""
                  /\ GetString(q, "bypass") = EmptyStr => v.Bypass = ""
                  /\ GetString(q, "resolver") = EmptyStr => v.Resolver = ""
                  /\ GetString(q, "hosts") = EmptyStr => v.Hosts = ""
                  /\ (GetString(q, "limiter.rate.in") = EmptyStr
                      /\ GetString(q, "limiter.rate.conn.in") = EmptyStr) => v.Limiter = ""
        /\ Len(c.Bypasses) = RefCount(c, "Bypass")
        /\ Len(c.Resolvers) = RefCount(c, "Resolver")
        /\ Len(c.Hosts) = RefCount(c, "Hosts")
        /\ Len(c.Admissions) = RefCount(c, "Admission")
        /\ Len(c.Limiters) = RefCount(c, "Limiter")

\* A hop and a service each own a bypass, a service carries the chain, and
\* a service spec holds an empty `admission` key.
RefIntegrityWitness ==
    /\ Returned
    /\ \E k \in 1..Len(Hops(ret.cfg)) : Hops(ret.cfg)[k].Bypass # ""
    /\ \E k \in 1..Len(ret.cfg.Services) :
          /\ ret.cfg.Services[k].Bypass # ""
          /\ ret.cfg.Services[k].Handler.Chain # ""
    /\ \E k \in 1..Len(ret.cfg.Services) :
          /\ "admission" \in DOMAIN RawMap(services[k])
          /\ ret.cfg.Services[k].Admission = ""

NamedByPosition(coll, kind) ==
    \A k \in 1..Len(coll) : coll[k].Name = Sprintf(kind, k - 1)

\* C2: in every top-level collection of the returned configuration and in
\* the hop list of chain-0 the entity at position k (from 0) is named
\* <kind>-k, so the names of one collection are pairwise distinct.
NamesByPosition ==
    Returned =>
        LET c == ret.cfg IN
        /\ NamedByPosition(c.Chains, "chain")
        /\ NamedByPosition(c.Services, "service")
        /\ NamedByPosition(c.Bypasses, "bypass")
        /\ NamedByPosition(c.Resolvers, "resolver")
        /\ NamedByPosition(c.Hosts, "hosts")
        /\ NamedByPosition(c.Limiters, "limiter")
        /\ NamedByPosition(c.Admissions, "admission")
        /\ NamedByPosition(Hops(c), "hop")
        /\ \A coll \in {c.Chains, c.Services, c.Bypasses, c.Resolvers, c.Hosts,
                        c.Limiters, c.Admissions, Hops(c)} :
              \A k, j \in 1..Len(coll) : coll[k].Name = coll[j].Name => k = j

\* Three bypasses, the first two from hops and the third from a service.
NamesByPositionWitness ==
    /\ Returned
    /\ Len(ret.cfg.Bypasses) = 3
    /\ Len(Hops(ret.cfg)) = 2
    /\ ret.cfg.Services[1].Bypass = "bypass-2"

\* The Auth a compiled service or node carries, at whichever layer the
\* ssh exception put it.
ServiceAuth(v) == IF v.Listener.Type \in {"ssh", "sshd"} THEN v.Listener.Auth ELSE v.Handler.Auth
NodeAuth(n) == IF n.Dialer.Type \in {"ssh", "sshd"} THEN n.Dialer.Auth ELSE n.Connector.Auth

\* What the claim expects of a spec with userinfo u and query q.
HasValidAuth(q) ==
    GetString(q, "auth") # EmptyStr /\ DecodeString(GetString(q, "auth")).err = "nil"

DecodedAuth(q) ==
    LET cs == DecodeString(GetString(q, "auth")).v
        n  == IndexByte(cs, ":")
    IN  [Username |-> IF n = 0 THEN cs ELSE SubSeq(cs, 1, n-1),
         Password |-> IF n = 0 THEN EmptyStr ELSE SubSeq(cs, n+1, Len(cs))]

AuthAsClaimed(s, auth) ==
    /\ (s.user # Nil /\ HasValidAuth(RawMap(s))) => auth = DecodedAuth(RawMap(s))
    /\ (s.user # Nil /\ "auth" \notin DOMAIN RawMap(s)) => auth = s.user

\* C3: for the service compiler and for the node compiler alike, a spec
\* with userinfo and a valid non-empty `auth` value resolves to the decoded
\* `auth` value, and a spec with userinfo alone resolves to the userinfo.
AuthPrecedence ==
    Returned =>
        /\ \A k \in 1..Len(ret.cfg.Services) :
              AuthAsClaimed(services[k], ServiceAuth(ret.cfg.Services[k]))
        /\ \A k \in 1..Len(Hops(ret.cfg)) :
              \A j \in 1..Len(Hops(ret.cfg)[k].Nodes) :
                  AuthAsClaimed(nodes[k], NodeAuth(Hops(ret.cfg)[k].Nodes[j]))

\* The part of C3 about services, which the code satisfies.
AuthPrecedenceServices ==
    Returned =>
        \A k \in 1..Len(ret.cfg.Services) :
            AuthAsClaimed(services[k], ServiceAuth(ret.cfg.Services[k]))

NoneOf(keys, m) == \A n \in 1..Len(keys) : keys[n] \notin DOMAIN m

\* The metadata maps a service or a node of the configuration points to.
ServiceMaps(v) == {mds[v.Handler.Metadata], mds[v.Listener.Metadata], mds[v.Metadata]}
NodeMaps(n) == {mds[n.Connector.Metadata], mds[n.Dialer.Metadata]}

ServiceKeysDeleted(v, m, withPrefer) ==
    /\ "auth" \notin DOMAIN m
    /\ NoneOf(TLSFileKeys, m)
    /\ v.Handler.Retries > 0 => "retries" \notin DOMAIN m
    /\ v.Admission # "" => "admission" \notin DOMAIN m
    /\ v.Bypass # "" => "bypass" \notin DOMAIN m
    /\ v.Resolver # "" => "resolver" \notin DOMAIN m
    /\ (withPrefer /\ v.Resolver # "") => "prefer" \notin DOMAIN m
    /\ v.Hosts # "" => "hosts" \notin DOMAIN m
    /\ v.Limiter # "" => NoneOf(LimiterKeys, m)
    /\ (v.Forwarder # Nil /\ v.Forwarder.Selector # Nil) => NoneOf(SelectorKeys, m)

HopKeysDeleted(h, m) ==
    /\ "auth" \notin DOMAIN m
    /\ NoneOf(TLSFileKeys \o <<"secure", "serverName">>, m)
    /\ h.Bypass # "" => "bypass" \notin DOMAIN m
    /\ h.Resolver # "" => "resolver" \notin DOMAIN m
    /\ h.Hosts # "" => "hosts" \notin DOMAIN m
    /\ h.Interface # EmptyStr => "interface" \notin DOMAIN m
    /\ h.SockOpts # Nil => "so_mark" \notin DOMAIN m
    /\ h.Selector # Nil => NoneOf(SelectorKeys, m)

KeysDeleted(withPrefer) ==
    Returned =>
        /\ \A k \in 1..Len(ret.cfg.Services) :
              \A m \in ServiceMaps(ret.cfg.Services[k]) :
                  ServiceKeysDeleted(ret.cfg.Services[k], m, withPrefer)
        /\ \A k \in 1..Len(Hops(ret.cfg)) :
              \A j \in 1..Len(Hops(ret.cfg)[k].Nodes) :
                  \A m \in NodeMaps(Hops(ret.cfg)[k].Nodes[j]) :
                      HopKeysDeleted(Hops(ret.cfg)[k], m)

\* C4: in the returned configuration no Handler, Listener, Service,
\* Connector or Dialer metadata map keeps a key whose value went into a
\* typed field or a named sub-resource: auth, the TLS file keys, secure and
\* serverName (nodes), bypass, resolver and the prefer value attached to
\* its nameservers, hosts, admission, the limiter keys, retries, interface,
\* so_mark, and the selector keys when a Selector was produced.
ConsumeAndDelete == KeysDeleted(TRUE)

\* C4 without `prefer`: every other consumed key is deleted.
ConsumeAndDeleteButPrefer == KeysDeleted(FALSE)

Range(f) == {f[x] : x \in DOMAIN f}

\* The keys some extraction step reads into a typed field or sub-resource.
ServiceReadKeys(s) ==
    Range(TLSFileKeys) \cup Range(LimiterKeys)
    \cup {"auth", "retries", "admission", "bypass", "resolver", "prefer", "hosts"}
    \cup (IF Trim(s.path, "/") # EmptyStr THEN Range(SelectorKeys) ELSE {})

NodeReadKeys ==
    Range(TLSFileKeys) \cup Range(SelectorKeys)
    \cup {"auth", "secure", "serverName", "bypass", "resolver", "hosts", "interface", "so_mark"}

\* The keys of a spec's query string and the first value it gives a key.
QueryKeys(s) == {s.query[n][1] : n \in 1..Len(s.query)}

FirstValue(s, k) ==
    LET first == CHOOSE n \in 1..Len(s.query) :
                    s.query[n][1] = k /\ \A j \in 1..Len(s.query) : s.query[j][1] = k => n <= j
    IN  s.query[first][2]

Untouched(s, m, k) == k \in DOMAIN m /\ m[k] = [t |-> "string", v |-> FirstValue(s, k)]

\* C5 as stated: every query key no extraction step reads into a typed
\* field or sub-resource is in the final Handler/Listener (service spec)
\* or Connector/Dialer (node spec) metadata with the first value the query
\* gives it, unchanged in content and type.
FrameOfExtraction ==
    Returned =>
        /\ \A k \in 1..Len(ret.cfg.Services) :
              \A m \in ServiceMaps(ret.cfg.Services[k]) :
                  \A key \in QueryKeys(services[k]) \ ServiceReadKeys(services[k]) :
                      Untouched(services[k], m, key)
        /\ \A k \in 1..Len(Hops(ret.cfg)) :
              \A j \in 1..Len(Hops(ret.cfg)[k].Nodes) :
                  \A m \in NodeMaps(Hops(ret.cfg)[k].Nodes[j]) :
                      \A key \in QueryKeys(nodes[k]) \ NodeReadKeys :
                          Untouched(nodes[k], m, key)

\* C5 as amended: the same, except that a service spec's non-empty `dns`
\* value is replaced in the metadata by the list of its comma-separated
\* parts (a node spec's `dns` is kept as given).
FrameOfExtractionButDns ==
    Returned =>
        /\ \A k \in 1..Len(ret.cfg.Services) :
              \A m \in ServiceMaps(ret.cfg.Services[k]) :
                  \A key \in QueryKeys(services[k]) \ ServiceReadKeys(services[k]) :
                      IF key = "dns" /\ FirstValue(services[k], key) # EmptyStr
                      THEN /\ key \in DOMAIN m
                           /\ m[key] = [t |-> "[]string",
                                        v |-> Split(FirstValue(services[k], key), ",")]
                      ELSE Untouched(services[k], m, key)
        /\ \A k \in 1..Len(Hops(ret.cfg)) :
              \A j \in 1..Len(Hops(ret.cfg)[k].Nodes) :
                  \A m \in NodeMaps(Hops(ret.cfg)[k].Nodes[j]) :
                      \A key \in QueryKeys(nodes[k]) \ NodeReadKeys :
                          Untouched(nodes[k], m, key)

\* A service keeps the first of two `foo` values next to consumed keys, a
\* service holds a split `dns`, and a node keeps `dns` as given.
FrameOfExtractionWitness ==
    /\ Returned
    /\ \E k \in 1..Len(ret.cfg.Services) :
          /\ Len(services[k].query) = 5
          /\ services[k].query[4] = <<"foo", <<"1">> >>
          /\ services[k].query[5] = <<"foo", <<"2">> >>
          /\ ret.cfg.Services[k].Bypass # ""
          /\ mds[ret.cfg.Services[k].Handler.Metadata]["foo"] = StrV(<<"1">>)
    /\ \E k \in 1..Len(ret.cfg.Services) :
          /\ "dns" \in DOMAIN mds[ret.cfg.Services[k].Listener.Metadata]
          /\ mds[ret.cfg.Services[k].Listener.Metadata]["dns"].t = "[]string"
    /\ \E k \in 1..Len(Hops(ret.cfg)) :
          /\ Len(Hops(ret.cfg)[k].Nodes) > 0
          /\ "dns" \in DOMAIN mds[Hops(ret.cfg)[k].Nodes[1].Connector.Metadata]

\* The error of compiling a spec, "nil" when it compiles.
NodeError(s) == NodeResult(s, 0).err
ServiceError(s) == ServiceResult(s, 0).err

\* The specs in processing order, each with its error.
Errors ==
    [k \in 1..Len(nodes) |-> NodeError(nodes[k])]
    \o [k \in 1..Len(services) |-> ServiceError(services[k])]

FirstFailure ==
    IF \E k \in 1..Len(Errors) : Errors[k] # "nil"
    THEN CHOOSE k \in 1..Len(Errors) :
            Errors[k] # "nil" /\ \A j \in 1..(k-1) : Errors[j] = "nil"
    ELSE 0

BlankErrors ==
    /\ \A k \in 1..Len(nodes) : nodes[k].text = "blank" => NodeError(nodes[k]) = "ErrInvalidCmd"
    /\ \A k \in 1..Len(services) :
          services[k].text = "blank" => ServiceError(services[k]) = "ErrInvalidCmd"

\* C6: buildConfigFromCmd returns a configuration and no error, or nil and
\* an error; the error is that of the first failing spec in processing
\* order (node specs, then service specs), a blank spec failing with the
\* invalid-spec error, and no spec after the failing one is compiled.
FailFast ==
    pc = "done" =>
        /\ BlankErrors
        /\ IF FirstFailure = 0
           THEN /\ ret.err = "nil"
                /\ ret.cfg # Nil
                /\ Len(Hops(ret.cfg)) = Len(nodes)
                /\ Len(ret.cfg.Services) = Len(services)
           ELSE /\ ret.cfg = Nil
                /\ ret.err = Errors[FirstFailure]
                /\ ret.err \in {"ErrInvalidCmd", "url.Error", "base64.CorruptInputError"}
                /\ Len(mds) = FirstFailure - 1
                /\ Len(Hops(cfg)) + Len(cfg.Services) = FirstFailure - 1

\* The second spec fails on its base64 `auth` after the first compiled, and
\* a third spec, itself failing, is left alone.
FailFastWitness ==
    /\ pc = "done"
    /\ ret.err = "base64.CorruptInputError"
    /\ Len(mds) = 1
    /\ Len(Errors) = 3
    /\ Errors[3] = "ErrInvalidCmd"

\* The non-empty comma-separated segments of a spec's address.
Segments(s) == NonEmpty(Split(s.host, ","))

\* C7: the hop of a node spec whose address has N non-empty segments holds
\* exactly N nodes in segment order, the k-th (from 0) named node-k with
\* the k-th segment as Addr and every other field equal to the compiled
\* template; no node carries the unsplit address of a comma list.
HostExpansion ==
    /\ \A k \in 1..Len(Hops(cfg)) :
          LET ns == Hops(cfg)[k].Nodes IN
          /\ Len(ns) = Len(Segments(nodes[k]))
          /\ \A j \in 1..Len(ns) :
                /\ ns[j].Name = Sprintf("node", j - 1)
                /\ ns[j].Addr = Segments(nodes[k])[j]
                /\ "," \notin Range(ns[j].Addr)
                /\ [ns[j] EXCEPT !.Name = "", !.Addr = EmptyStr]
                   = [ns[1] EXCEPT !.Name = "", !.Addr = EmptyStr]
    /\ nodeConfig # Nil =>
          LET ns == Hops(cfg)[Len(Hops(cfg))].Nodes IN
          /\ nodeConfig.Addr = nodes[Len(Hops(cfg))].host
          /\ \A j \in 1..Len(ns) :
                [ns[j] EXCEPT !.Name = nodeConfig.Name, !.Addr = nodeConfig.Addr] = nodeConfig

\* A hop built from the address "a,,b," holds node-0 "a" and node-1 "b",
\* whose dialers carry the template's TLS.
HostExpansionWitness ==
    /\ nodeConfig # Nil
    /\ nodeConfig.Addr = <<"a", ",", ",", "b", ",">>
    /\ Len(Hops(cfg)) > 0
    /\ LET ns == Hops(cfg)[Len(Hops(cfg))].Nodes IN
       /\ Len(ns) = 2
       /\ ns[2].Name = "node-1"
       /\ ns[2].Addr = <<"b">>
       /\ ns[2].Dialer.TLS # Nil

\* The handler and listener a service spec asks for, as the compiler
\* resolves them before it looks at the path.
SpecHandler(s) ==
    LET h == SplitScheme(normCmd(s).url.Scheme).first IN
    IF h \in RegisteredHandlers THEN h ELSE "auto"

\* C8: a service has a Forwarder iff its path trimmed of slashes is
\* non-empty, with one target per comma-separated piece of it; in forward
\* mode the handler is the listener type when that is one of tcp, udp,
\* rtcp, rudp, tun, tap, dns, and `forward` otherwise, unless the spec's
\* handler is relay, which stays; outside forward mode the handler is the
\* one the scheme resolves to.
ForwardMode ==
    Returned =>
        \A k \in 1..Len(ret.cfg.Services) :
            LET v       == ret.cfg.Services[k]
                remotes == Trim(services[k].path, "/")
                pieces  == Split(remotes, ",")
                h       == SpecHandler(services[k])
            IN  /\ (v.Forwarder # Nil) <=> (remotes # EmptyStr)
                /\ v.Forwarder # Nil =>
                      /\ Len(v.Forwarder.Nodes) = Len(pieces)
                      /\ \A j \in 1..Len(pieces) : v.Forwarder.Nodes[j].Addr = pieces[j]
                      /\ h = "relay" => v.Handler.Type = "relay"
                      /\ (h # "relay" /\ v.Listener.Type \in DirectHandlers)
                            => v.Handler.Type = v.Listener.Type
                      /\ (h # "relay" /\ v.Listener.Type \notin DirectHandlers)
                            => v.Handler.Type = "forward"
                /\ v.Forwarder = Nil => v.Handler.Type = h

\* A relay service that forwards to three targets, a service whose handler
\* became `forward`, and a service with a path of slashes only.
ForwardModeWitness ==
    /\ Returned
    /\ \E k \in 1..Len(ret.cfg.Services) :
          /\ ret.cfg.Services[k].Forwarder # Nil
          /\ Len(ret.cfg.Services[k].Forwarder.Nodes) = 3
          /\ ret.cfg.Services[k].Handler.Type = "relay"
    /\ \E k \in 1..Len(ret.cfg.Services) :
          /\ ret.cfg.Services[k].Forwarder # Nil
          /\ ret.cfg.Services[k].Handler.Type = "forward"
    /\ \E k \in 1..Len(ret.cfg.Services) :
          /\ ret.cfg.Services[k].Forwarder = Nil
          /\ services[k].path # EmptyStr

\* The maps parseSelector ran on, each with the spec it came from and the
\* Selector it got: every hop's map and every forward-mode service's map.
SelectorRuns ==
    {[s |-> nodes[k], m |-> mds[k], sel |-> Hops(cfg)[k].Selector] : k \in 1..Len(Hops(cfg))}
    \cup {[s   |-> services[k],
           m   |-> mds[cfg.Services[k].Metadata],
           sel |-> cfg.Services[k].Forwarder.Selector] :
          k \in {j \in 1..Len(cfg.Services) : cfg.Services[j].Forwarder # Nil}}

\* C9 as stated: after parseSelector ran on a map none of strategy,
\* maxFails, max_fails, failTimeout, fail_timeout is left in it, whether
\* it returned a Selector or nil.
SelectorKeysDeleted ==
    \A r \in SelectorRuns : NoneOf(SelectorKeys, r.m)

\* C9 as amended: when parseSelector returns a Selector none of the five
\* keys is left in the map; when it returns nil it deletes nothing, so
\* each of the five keys the spec gave is still there with its value.
SelectorKeysDeletedWithSelector ==
    \A r \in SelectorRuns :
        /\ r.sel # Nil => NoneOf(SelectorKeys, r.m)
        /\ r.sel = Nil =>
              \A key \in Range(SelectorKeys) \cap QueryKeys(r.s) : Untouched(r.s, r.m, key)

\* A Selector made from the aliases max_fails and fail_timeout, and a nil
\* Selector next to a kept maxFails=0.
SelectorKeysWitness ==
    /\ \E r \in SelectorRuns :
          /\ r.sel # Nil
          /\ r.sel.MaxFails = 2
          /\ r.sel.FailTimeout = 10
          /\ "fail_timeout" \in DOMAIN RawMap(r.s)
    /\ \E r \in SelectorRuns :
          /\ r.sel = Nil
          /\ "maxFails" \in DOMAIN r.m

\* C10: chain-0 exists iff node specs were given and, once every node spec
\* is compiled, holds one hop per node spec in list order; no service is
\* compiled before the last node spec; with a chain every service names it
\* in exactly one place, Listener.Chain for rtcp and rudp listeners and
\* Handler.Chain otherwise; without a chain neither field is set.
ChainWiring ==
    /\ Len(cfg.Chains) = (IF Len(nodes) > 0 THEN 1 ELSE 0)
    /\ Len(cfg.Chains) > 0 => cfg.Chains[1].Name = "chain-0"
    /\ Len(Hops(cfg)) <= Len(nodes)
    /\ (pc = "services" \/ Returned \/ Len(cfg.Services) > 0) => Len(Hops(cfg)) = Len(nodes)
    /\ \A k \in 1..Len(Hops(cfg)) :
          /\ Hops(cfg)[k].Name = Sprintf("hop", k - 1)
          /\ \A j \in 1..Len(Hops(cfg)[k].Nodes) :
                Hops(cfg)[k].Nodes[j].Addr = Segments(nodes[k])[j]
    /\ \A k \in 1..Len(cfg.Services) :
          LET v == cfg.Services[k] IN
          IF Len(nodes) = 0
          THEN v.Listener.Chain = "" /\ v.Handler.Chain = ""
          ELSE IF v.Listener.Type \in {"rtcp", "rudp"}
          THEN v.Listener.Chain = "chain-0" /\ v.Handler.Chain = ""
          ELSE v.Listener.Chain = "" /\ v.Handler.Chain = "chain-0"

\* After one node spec, an rtcp service carries the chain on its listener
\* and another service on its handler.
ChainWiringWitness ==
    /\ Returned
    /\ Len(Hops(ret.cfg)) = 1
    /\ \E k \in 1..Len(ret.cfg.Services) : ret.cfg.Services[k].Listener.Chain = "chain-0"
    /\ \E k \in 1..Len(ret.cfg.Services) : ret.cfg.Services[k].Handler.Chain = "chain-0"

====
